---- MODULE Spec2Model ----
(***************************************************************************)
(* The minimongo projection compiler of erikwoo/mt (src/unnamed/part_000): *)
(* _checkSupportedProjection, projectionDetails, pathsToTree and the       *)
(* closure returned by _compileProjection, as a state machine whose        *)
(* actions are a caller compiling a fields specification, applying the     *)
(* compiled function to a document, and applying it again to its own       *)
(* result.                                                                 *)
(*                                                                         *)
(* Strings are sequences of one-character strings, so that split('.'),     *)
(* join('.') and the default Array.prototype.sort order are computed.      *)
(* JavaScript values that are not documents are records [ty, n, keys];     *)
(* documents are records tagged "val", "obj" or "arr", and every object    *)
(* and array carries the identity of the allocation it is.                 *)
(***************************************************************************)
EXTENDS Integers, Sequences, FiniteSets, TLC

VARIABLES fields, pc, err, details, idProjection, doc, res, res2

vars == <<fields, pc, err, details, idProjection, doc, res, res2>>

(***************************************************************************)
(* Bounds of the model.                                                    *)
(***************************************************************************)
\* the largest number of key/value pairs of a fields specification
MaxKeys == 2
\* the largest length of an array inside a document
MaxArrLen == 2

(***************************************************************************)
(* Strings.                                                                *)
(***************************************************************************)
\* UTF-16 code units of the characters the keys are written with
CodeUnit(c) ==
  CASE c = "$" -> 36
    [] c = "." -> 46
    [] c = "0" -> 48
    [] c = "1" -> 49
    [] c = "2" -> 50
    [] c = "3" -> 51
    [] c = "_" -> 95
    [] c = "a" -> 97
    [] c = "b" -> 98
    [] c = "d" -> 100
    [] c = "i" -> 105
    [] c = "x" -> 120

\* s < t in the order of the default sort: by code unit, a prefix first
RECURSIVE StrLess(_, _)
StrLess(s, t) ==
  IF t = <<>> THEN FALSE
  ELSE IF s = <<>> THEN TRUE
  ELSE IF CodeUnit(Head(s)) # CodeUnit(Head(t))
       THEN CodeUnit(Head(s)) < CodeUnit(Head(t))
       ELSE StrLess(Tail(s), Tail(t))

RECURSIVE SplitFrom(_, _, _)
SplitFrom(s, cur, acc) ==
  IF s = <<>> THEN Append(acc, cur)
  ELSE IF Head(s) = "." THEN SplitFrom(Tail(s), <<>>, Append(acc, cur))
  ELSE SplitFrom(Tail(s), Append(cur, Head(s)), acc)

\* keyPath.split('.')
Split(s) == SplitFrom(s, <<>>, <<>>)

\* segs.join('.')
RECURSIVE Join(_)
Join(segs) ==
  IF segs = <<>> THEN <<>>
  ELSE IF Len(segs) = 1 THEN Head(segs)
  ELSE Head(segs) \o <<".">> \o Join(Tail(segs))

RECURSIVE InsertSorted(_, _)
InsertSorted(k, sorted) ==
  IF sorted = <<>> THEN <<k>>
  ELSE IF StrLess(k, Head(sorted)) THEN <<k>> \o sorted
  ELSE <<Head(sorted)>> \o InsertSorted(k, Tail(sorted))

\* keys.sort()
RECURSIVE SortKeys(_)
SortKeys(keys) ==
  IF keys = <<>> THEN <<>> ELSE InsertSorted(Head(keys), SortKeys(Tail(keys)))

Contains(seq, x) == \E i \in 1..Len(seq) : seq[i] = x

(***************************************************************************)
(* JavaScript values of a fields specification and of the rule tree.       *)
(***************************************************************************)
JsNum(n) == [ty |-> "number", n |-> n, keys |-> {}]
JsBool(b) == [ty |-> "boolean", n |-> IF b THEN 1 ELSE 0, keys |-> {}]
\* a string of n characters
JsStr(n) == [ty |-> "string", n |-> n, keys |-> {}]
\* an object literal with the given own keys
JsObj(keys) == [ty |-> "object", n |-> 0, keys |-> keys]
JsNull == [ty |-> "null", n |-> 0, keys |-> {}]
JsUndefined == [ty |-> "undefined", n |-> 0, keys |-> {}]

\* !!v
Truthy(v) ==
  CASE v.ty = "number" -> v.n # 0
    [] v.ty = "boolean" -> v.n = 1
    [] v.ty = "string" -> v.n > 0
    [] v.ty \in {"object", "tree"} -> TRUE
    [] OTHER -> FALSE

\* _.isObject(v) for a rule: a nested tree, not a boolean leaf
IsObjectRule(v) == v.ty \in {"object", "tree"}

Tree(kids) == [ty |-> "tree", kids |-> kids]
EmptyTree == Tree(<<>>)

(***************************************************************************)
(* Fields specifications: the key/value pairs in key iteration order.      *)
(***************************************************************************)
IdKey == <<"_", "i", "d">>

KeyPool ==
  { IdKey, <<"a">>, <<"b">>, <<"a", ".", "b">>, <<"a", ".", "b", ".", "x">>,
    <<"_", "i", "d", ".", "x">>, <<"a", ".", "$">> }

ValuePool ==
  { JsNum(1), JsNum(0), JsBool(TRUE), JsBool(FALSE), JsStr(3),
    JsObj({"$slice"}) }

RECURSIVE PairSeqs(_)
PairSeqs(n) ==
  IF n = 0 THEN {<<>>}
  ELSE LET prev == PairSeqs(n - 1)
       IN prev \cup
          { Append(s, <<k, v>>) :
              s \in {t \in prev : Len(t) = n - 1},
              k \in KeyPool, v \in ValuePool }

DistinctKeys(pairs) ==
  \A i, j \in 1..Len(pairs) : pairs[i][1] = pairs[j][1] => i = j

ObjectSpec(pairs) == [shape |-> "object", pairs |-> pairs]

AllFields ==
  { ObjectSpec(p) : p \in {q \in PairSeqs(MaxKeys) : DistinctKeys(q)} }
    \cup { [shape |-> "array", pairs |-> <<>>],
           [shape |-> "string", pairs |-> <<>>] }

\* _.keys(fields)
Keys(f) == [i \in 1..Len(f.pairs) |-> f.pairs[i][1]]

\* fields[key]
Get(f, key) ==
  IF \E i \in 1..Len(f.pairs) : f.pairs[i][1] = key
  THEN f.pairs[CHOOSE i \in 1..Len(f.pairs) : f.pairs[i][1] = key][2]
  ELSE JsUndefined

(***************************************************************************)
(* Errors: MinimongoError(message).                                        *)
(***************************************************************************)
NoError == [msg |-> "", currentPath |-> <<>>, anotherPath |-> <<>>]
MinimongoError(msg) == [msg |-> msg, currentPath |-> <<>>, anotherPath |-> <<>>]

MsgShape == "fields option must be an object"
MsgDollar == "Minimongo doesn't support $ operator in projections yet."
MsgOperator == "Minimongo doesn't support operators in projections yet."
MsgValue == "Projection values should be one of 1, 0, true, or false"
MsgMixed == "You cannot currently mix including and excluding fields."
MsgAmbiguous == "both currentPath and anotherPath found in fields option"

AmbiguousError(currentPath, anotherPath) ==
  [msg |-> MsgAmbiguous, currentPath |-> currentPath, anotherPath |-> anotherPath]

(***************************************************************************)
(* _checkSupportedProjection                                               *)
(***************************************************************************)
ProjectionOperators == {"$elemMatch", "$meta", "$slice"}
Literals == <<JsNum(1), JsNum(0), JsBool(TRUE), JsBool(FALSE)>>

\* the three checks of one key/value pair, in the order of the code
CheckPair(keyPath, val) ==
  IF Contains(Split(keyPath), <<"$">>)
  THEN MinimongoError(MsgDollar)
  ELSE IF val.ty \in {"object", "null"} /\ (ProjectionOperators \cap val.keys) # {}
  THEN MinimongoError(MsgOperator)
  ELSE IF ~Contains(Literals, val)
  THEN MinimongoError(MsgValue)
  ELSE NoError

\* _.each over the pairs; the first throw ends it
RECURSIVE CheckPairs(_)
CheckPairs(pairs) ==
  IF pairs = <<>> THEN NoError
  ELSE LET e == CheckPair(Head(pairs)[1], Head(pairs)[2])
       IN IF e # NoError THEN e ELSE CheckPairs(Tail(pairs))

checkSupportedProjection(f) ==
  IF f.shape # "object" THEN MinimongoError(MsgShape) ELSE CheckPairs(f.pairs)

(***************************************************************************)
(* pathsToTree, with the two callbacks projectionDetails passes.           *)
(***************************************************************************)
\* variant: every leaf true, whatever the mode
NewLeafFnTrue(path, including) == JsBool(TRUE)

\* function (path) { return including; }
NewLeafFn(path, including) == including

\* what a callback hands back: the value it returns, or the error it throws
Returned(value) == [err |-> NoError, value |-> value]
Threw(e) == [err |-> e, value |-> JsUndefined]

\* variant: the conflict is settled in silence, the earlier node kept
ConflictFnKeepsNode(node, path, fullPath) == Returned(node)

\* function (node, path, fullPath) { ... throw MinimongoError("both ...") }
ConflictFn(node, path, fullPath) == Threw(AmbiguousError(fullPath, path))

Built(tree) == [err |-> NoError, tree |-> tree]
Thrown(e) == [err |-> e, tree |-> EmptyTree]

\* one path put into the (sub)tree at treePos, from segment idx on
RECURSIVE PutPath(_, _, _, _, _)

\* the step of _.all over pathArr.slice(0, -1) at an existing leaf
ResolveBranch(treePos, pathArr, idx, keyPath, including) ==
  LET key == pathArr[idx]
      resolved == ConflictFn(treePos.kids[key],
                             Join(SubSeq(pathArr, 1, idx)), keyPath)
  IN IF resolved.err # NoError THEN Thrown(resolved.err)
     ELSE IF ~IsObjectRule(resolved.value)
     \* break out of the loop: the path is given up
     THEN Built(Tree((key :> resolved.value) @@ treePos.kids))
     ELSE LET sub == PutPath(resolved.value, pathArr, idx + 1, keyPath, including)
          IN IF sub.err # NoError THEN sub
             ELSE Built(Tree((key :> sub.tree) @@ treePos.kids))

\* if (success) { var lastKey = _.last(pathArr); ... }
PutLeaf(treePos, lastKey, keyPath, including) ==
  IF lastKey \notin DOMAIN treePos.kids
  THEN Built(Tree((lastKey :> NewLeafFn(keyPath, including)) @@ treePos.kids))
  ELSE LET resolved == ConflictFn(treePos.kids[lastKey], keyPath, keyPath)
       IN IF resolved.err # NoError THEN Thrown(resolved.err)
          ELSE Built(Tree((lastKey :> resolved.value) @@ treePos.kids))

PutPath(treePos, pathArr, idx, keyPath, including) ==
  LET key == pathArr[idx]
      has == key \in DOMAIN treePos.kids
  IN IF idx = Len(pathArr) THEN PutLeaf(treePos, key, keyPath, including)
     ELSE IF has /\ ~IsObjectRule(treePos.kids[key])
     THEN ResolveBranch(treePos, pathArr, idx, keyPath, including)
     ELSE LET child == IF has THEN treePos.kids[key] ELSE EmptyTree
              sub == PutPath(child, pathArr, idx + 1, keyPath, including)
          IN IF sub.err # NoError THEN sub
             ELSE Built(Tree((key :> sub.tree) @@ treePos.kids))

RECURSIVE pathsToTree(_, _, _)
pathsToTree(paths, including, tree) ==
  IF paths = <<>> THEN Built(tree)
  ELSE LET one == PutPath(tree, Split(Head(paths)), 1, Head(paths), including)
       IN IF one.err # NoError THEN one
          ELSE pathsToTree(Tail(paths), including, one.tree)

(***************************************************************************)
(* projectionDetails                                                       *)
(***************************************************************************)
Reject(seq, x) == SelectSeq(seq, LAMBDA k : k # x)

\* variant: _id leaves the working keys whenever another key exists
WorkingKeysDropsId(f) ==
  LET fieldsKeys == SortKeys(Keys(f))
  IN IF Len(fieldsKeys) > 1 THEN Reject(fieldsKeys, IdKey) ELSE fieldsKeys

\* the keys the mode and the tree are resolved over
WorkingKeys(f) ==
  LET fieldsKeys == SortKeys(Keys(f))
  IN IF /\ Len(fieldsKeys) > 0
        /\ ~(Len(fieldsKeys) = 1 /\ fieldsKeys[1] = IdKey)
        /\ ~(Contains(fieldsKeys, IdKey) /\ Truthy(Get(f, IdKey)))
     THEN Reject(fieldsKeys, IdKey)
     ELSE fieldsKeys

\* the _.each that fixes `including` and throws on a key of the other mode
RECURSIVE ResolveIncluding(_, _, _)
ResolveIncluding(f, keys, including) ==
  IF keys = <<>> THEN [err |-> NoError, including |-> including]
  ELSE LET rule == JsBool(Truthy(Get(f, Head(keys))))
           inc == IF including = JsNull THEN rule ELSE including
       IN IF inc # rule
          THEN [err |-> MinimongoError(MsgMixed), including |-> inc]
          ELSE ResolveIncluding(f, Tail(keys), inc)

Details(tree, including) == [tree |-> tree, including |-> including]
NoDetails == Details(EmptyTree, JsUndefined)

projectionDetails(f) ==
  LET fieldsKeys == WorkingKeys(f)
      mode == ResolveIncluding(f, fieldsKeys, JsNull)
  IN IF mode.err # NoError THEN [err |-> mode.err, details |-> NoDetails]
     ELSE LET built == pathsToTree(fieldsKeys, mode.including, EmptyTree)
          IN IF built.err # NoError
             THEN [err |-> built.err, details |-> NoDetails]
             ELSE [err |-> NoError,
                   details |-> Details(built.tree, mode.including)]

(***************************************************************************)
(* Documents.  Val(n) is a scalar; an object maps its own keys to          *)
(* documents; an array is a sequence of documents.  id names the           *)
(* allocation: Input(at) is the caller's own node found at path `at` of    *)
(* the document handed in, Fresh is a node allocated during the call.      *)
(***************************************************************************)
Val(n) == [t |-> "val", v |-> n]
Obj(id, f) == [t |-> "obj", id |-> id, f |-> f]
Arr(id, e) == [t |-> "arr", id |-> id, e |-> e]

Fresh == [own |-> "fresh", at |-> <<>>]
Input(at) == [own |-> "input", at |-> at]

\* the property name of the i-th element of an array
IndexKey(i) == << <<"0", "1", "2", "3">>[i] >>

\* _.isArray(x)
IsArray(x) == x.t = "arr"
\* _.isObject(x), of a document value
IsObject(x) == x.t \in {"obj", "arr"}
\* _.has(x, key), for the keys of the model (none is an array index or "length")
Has(x, key) == x.t = "obj" /\ key \in DOMAIN x.f

\* the same document with every node a new allocation
RECURSIVE Erase(_)
Erase(x) ==
  CASE x.t = "obj" -> Obj(Fresh, [k \in DOMAIN x.f |-> Erase(x.f[k])])
    [] x.t = "arr" -> Arr(Fresh, [i \in 1..Len(x.e) |-> Erase(x.e[i])])
    [] OTHER -> x

\* EJSON.clone(x): a deep copy
EJSONClone(x) == Erase(x)

\* EJSON.equals(x, y): equality of content, whatever the allocations
DeepEquals(x, y) == Erase(x) = Erase(y)

\* the document x as the caller holds it, each node named by its path
RECURSIVE Label(_, _)
Label(x, at) ==
  CASE x.t = "obj" ->
         Obj(Input(at), [k \in DOMAIN x.f |-> Label(x.f[k], Append(at, k))])
    [] x.t = "arr" ->
         Arr(Input(at),
             [i \in 1..Len(x.e) |-> Label(x.e[i], Append(at, IndexKey(i)))])
    [] OTHER -> x

\* res[key] = x
SetKey(r, key, x) == [r EXCEPT !.f = (key :> x) @@ r.f]
\* delete res[key]
DeleteKey(r, key) == [r EXCEPT !.f = [k \in DOMAIN r.f \ {key} |-> r.f[k]]]

(***************************************************************************)
(* The closure _compileProjection returns.                                 *)
(***************************************************************************)
RECURSIVE transform(_, _, _)
RECURSIVE EachRule(_, _, _, _, _)

\* variant: the result starts empty in both modes
StartResultEmpty(d, including) == Obj(Fresh, <<>>)

\* var res = details.including ? {} : EJSON.clone(doc)
StartResult(d, including) ==
  IF Truthy(including) THEN Obj(Fresh, <<>>) ELSE EJSONClone(d)

\* variant: the including branch copies doc, not doc[key]
LeafRuleWholeDoc(r, d, key, including) ==
  IF Truthy(including)
  THEN SetKey(r, key, EJSONClone(d))
  ELSE DeleteKey(r, key)

\* the rule is a leaf: copy the field (including) or delete it (excluding)
LeafRule(r, d, key, including) ==
  IF Truthy(including)
  THEN SetKey(r, key, EJSONClone(d.f[key]))
  ELSE DeleteKey(r, key)

\* variant: the branch is taken without the _.isObject(doc[key]) test
BranchRuleUnguarded(r, d, key, rule, including) ==
  SetKey(r, key, transform(d.f[key], rule, including))

\* the rule is a subtree: branch into sub-objects and arrays only
BranchRule(r, d, key, rule, including) ==
  IF IsObject(d.f[key])
  THEN SetKey(r, key, transform(d.f[key], rule, including))
  ELSE r

\* the body of _.each(ruleTree, function (rule, key) {...})
ApplyRule(r, d, key, rule, including) ==
  IF ~Has(d, key) THEN r
  ELSE IF IsObjectRule(rule) THEN BranchRule(r, d, key, rule, including)
  ELSE LeafRule(r, d, key, including)

EachRule(keys, r, d, ruleTree, including) ==
  IF keys = {} THEN r
  ELSE LET key == CHOOSE k \in keys : TRUE
       IN EachRule(keys \ {key},
                   ApplyRule(r, d, key, ruleTree.kids[key], including),
                   d, ruleTree, including)

\* variant: an array is copied whole, not projected
MapTransformWhole(d, ruleTree, including) == EJSONClone(d)

\* _.map(doc, function (subdoc) { return transform(subdoc, ruleTree); })
MapTransform(d, ruleTree, including) ==
  Arr(Fresh, [i \in 1..Len(d.e) |-> transform(d.e[i], ruleTree, including)])

transform(d, ruleTree, including) ==
  IF IsArray(d) THEN MapTransform(d, ruleTree, including)
  ELSE EachRule(DOMAIN ruleTree.kids, StartResult(d, including), d,
                ruleTree, including)

\* var _idProjection = _.isUndefined(fields._id) ? true : fields._id
IdProjectionOf(f) ==
  IF Get(f, IdKey) = JsUndefined THEN JsBool(TRUE) ELSE Get(f, IdKey)

\* variant: _id is never forced in, only removed
ApplyIdRuleDeleteOnly(obj, r, idProj) ==
  IF ~Truthy(idProj) /\ Has(r, IdKey) THEN DeleteKey(r, IdKey) ELSE r

\* the two statements after the recursive pass
ApplyIdRule(obj, r, idProj) ==
  LET r1 == IF Truthy(idProj) /\ Has(obj, IdKey)
            THEN SetKey(r, IdKey, obj.f[IdKey])
            ELSE r
  IN IF ~Truthy(idProj) /\ Has(r1, IdKey) THEN DeleteKey(r1, IdKey) ELSE r1

\* function (obj) { ... return res; }
compiledProjection(obj, det, idProj) ==
  ApplyIdRule(obj, transform(obj, det.tree, det.including), idProj)

\* what a call of _compileProjection ends with: the error it throws, or the
\* closure it returns, which holds details and _idProjection
Compiled(det, idProj) == [err |-> NoError, details |-> det, idProjection |-> idProj]
CompileThrew(e) == [err |-> e, details |-> NoDetails, idProjection |-> JsUndefined]

\* variant: projectionDetails runs before _checkSupportedProjection
compileProjectionResolvesFirst(f) ==
  LET resolved == projectionDetails(f)
      checked == checkSupportedProjection(f)
  IN IF resolved.err # NoError THEN CompileThrew(resolved.err)
     ELSE IF checked # NoError THEN CompileThrew(checked)
     ELSE Compiled(resolved.details, IdProjectionOf(f))

compileProjection(f) ==
  LET checked == checkSupportedProjection(f)
  IN IF checked # NoError THEN CompileThrew(checked)
     ELSE LET resolved == projectionDetails(f)
          IN IF resolved.err # NoError THEN CompileThrew(resolved.err)
             ELSE Compiled(resolved.details, IdProjectionOf(f))

(***************************************************************************)
(* The documents the compiled function is applied to.                      *)
(***************************************************************************)
Kb == <<"b">>
Kx == <<"x">>
Ka == <<"a">>

PlainObj(f) == Obj(Fresh, f)
PlainArr(e) == Arr(Fresh, e)

\* objects over the keys b and x
InnerObjs ==
  { PlainObj([k \in S |-> IF k = Kb THEN Val(1) ELSE Val(2)]) :
      S \in SUBSET {Kb, Kx} }

Obx == PlainObj((Kb :> Val(1)) @@ (Kx :> Val(2)))

RECURSIVE SeqsOver(_, _)
SeqsOver(S, n) ==
  IF n = 0 THEN {<<>>}
  ELSE LET prev == SeqsOver(S, n - 1)
       IN prev \cup { Append(s, x) : s \in {t \in prev : Len(t) = n - 1}, x \in S }

\* arrays of scalars and objects
InnerArrs == { PlainArr(e) : e \in SeqsOver({Val(1), Obx}, MaxArrLen) }

Absent == [t |-> "absent"]

IdValues == { Absent, Val(1), Obx, PlainArr(<<Obx>>) }
AValues ==
  { Absent, Val(1), PlainObj(Kb :> PlainObj(Kx :> Val(2))),
    PlainArr(<<PlainArr(<<Obx>>)>>) } \cup InnerObjs \cup InnerArrs
BValues == { Absent, Val(2) }

TopObj(i, a, b) ==
  LET given == (IdKey :> i) @@ (Ka :> a) @@ (Kb :> b)
  IN PlainObj([k \in {j \in DOMAIN given : given[j] # Absent} |-> given[k]])

TopObjs == { TopObj(i, a, b) : i \in IdValues, a \in AValues, b \in BValues }

TopArrs ==
  { PlainArr(e) :
      e \in SeqsOver({Val(1), TopObj(Val(1), Obx, Val(2))}, MaxArrLen) }

Docs == { Label(d, <<>>) : d \in TopObjs \cup TopArrs \cup {Val(1)} }

(***************************************************************************)
(* The state machine.                                                      *)
(***************************************************************************)
NoDoc == Val(0)

Init ==
  /\ fields \in AllFields
  /\ pc = "start"
  /\ err = NoError
  /\ details = NoDetails
  /\ idProjection = JsUndefined
  /\ doc = NoDoc
  /\ res = NoDoc
  /\ res2 = NoDoc

\* _compileProjection(fields)
Compile ==
  /\ pc = "start"
  /\ LET out == compileProjection(fields)
     IN /\ pc' = IF out.err # NoError THEN "failed" ELSE "compiled"
        /\ err' = out.err
        /\ details' = out.details
        /\ idProjection' = out.idProjection
  /\ UNCHANGED <<fields, doc, res, res2>>

\* projectionDetails(fields), called on its own
CallProjectionDetails ==
  /\ pc = "start"
  /\ fields.shape = "object"
  /\ LET resolved == projectionDetails(fields)
     IN /\ pc' = "detailed"
        /\ err' = resolved.err
        /\ details' = resolved.details
  /\ UNCHANGED <<fields, idProjection, doc, res, res2>>

\* the compiled function applied to a document
Apply ==
  /\ pc = "compiled"
  /\ \E d \in Docs :
       /\ doc' = d
       /\ res' = compiledProjection(d, details, idProjection)
  /\ pc' = "applied"
  /\ UNCHANGED <<fields, err, details, idProjection, res2>>

\* the compiled function applied to its own result
ApplyAgain ==
  /\ pc = "applied"
  /\ res2' = compiledProjection(res, details, idProjection)
  /\ pc' = "reapplied"
  /\ UNCHANGED <<fields, err, details, idProjection, doc, res>>

Next ==
  \/ Compile
  \/ CallProjectionDetails
  \/ Apply
  \/ ApplyAgain

Spec == Init /\ [][Next]_vars

(***************************************************************************)
(* Vocabulary of the properties.                                           *)
(***************************************************************************)
KeySet(f) == { f.pairs[i][1] : i \in 1..Len(f.pairs) }

\* the spec maps _id to 0 or false (or another falsy value)
MapsIdFalsy(f) == IdKey \in KeySet(f) /\ ~Truthy(Get(f, IdKey))

\* all spec keys, minus _id when it is falsy and another key exists
WorkingSet(f) ==
  IF MapsIdFalsy(f) /\ KeySet(f) # {IdKey} THEN KeySet(f) \ {IdKey} ELSE KeySet(f)

HasDollarSegment(key) == \E i \in 1..Len(Split(key)) : Split(key)[i] = <<"$">>
HasOperatorKey(val) ==
  val.ty = "object" /\ \E k \in val.keys : k \in {"$elemMatch", "$meta", "$slice"}
IsLiteral(val) ==
  \/ val.ty = "number" /\ val.n \in {0, 1}
  \/ val.ty = "boolean"

Offending(pair) ==
  HasDollarSegment(pair[1]) \/ HasOperatorKey(pair[2]) \/ ~IsLiteral(pair[2])

PassesValidation(f) ==
  f.shape = "object" /\ \A i \in 1..Len(f.pairs) : ~Offending(f.pairs[i])

MixesModes(f) ==
  /\ \E k \in WorkingSet(f) : Truthy(Get(f, k))
  /\ \E k \in WorkingSet(f) : ~Truthy(Get(f, k))

ProperPrefix(p, q) == Len(p) < Len(q) /\ SubSeq(q, 1, Len(p)) = p

HasOverlap(f) ==
  \E p, q \in WorkingSet(f) : ProperPrefix(Split(p), Split(q))

\* the same pairs declared in another order
Reorderings(f) ==
  { ObjectSpec([i \in 1..Len(f.pairs) |-> f.pairs[s[i]]]) :
      s \in Permutations(1..Len(f.pairs)) }

AfterCompile == pc \in {"compiled", "failed"}
Inclusive == details.including = JsBool(TRUE)
Exclusive == details.including = JsBool(FALSE)

IndexKeys == { IndexKey(i) : i \in 1..4 }

\* the paths of the keys and elements of x
RECURSIVE DocPaths(_)
DocPaths(x) ==
  CASE x.t = "obj" ->
         UNION { {<<k>>} \cup { <<k>> \o p : p \in DocPaths(x.f[k]) } :
                 k \in DOMAIN x.f }
    [] x.t = "arr" ->
         UNION { {<<IndexKey(i)>>} \cup
                 { <<IndexKey(i)>> \o p : p \in DocPaths(x.e[i]) } :
                 i \in 1..Len(x.e) }
    [] OTHER -> {}

ElemIndex(x, step) == CHOOSE i \in 1..Len(x.e) : IndexKey(i) = step

\* the value of x at path p
RECURSIVE NodeAt(_, _)
NodeAt(x, p) ==
  IF p = <<>> THEN x
  ELSE IF x.t = "obj" THEN NodeAt(x.f[Head(p)], Tail(p))
  ELSE NodeAt(x.e[ElemIndex(x, Head(p))], Tail(p))

\* the keys of a path, its array positions left out
KeysOf(p) == SelectSeq(p, LAMBDA step : step \notin IndexKeys)

\* p is a spec path or lies under one
Named(f, p) ==
  \E k \in KeySet(f) : Split(k) = KeysOf(p) \/ ProperPrefix(Split(k), KeysOf(p))

(***************************************************************************)
(* C1: no object or array reachable from the value the compiled function   *)
(* returns is an object or array of the document it was given, the value   *)
(* at the top-level _id key included.  The code assigns res._id = obj._id  *)
(* without a copy, so this fails when d._id is an object or an array.      *)
(***************************************************************************)
RECURSIVE InputNodes(_)
InputNodes(x) ==
  CASE x.t = "obj" ->
         (IF x.id.own = "input" THEN {x.id.at} ELSE {})
           \cup UNION { InputNodes(x.f[k]) : k \in DOMAIN x.f }
    [] x.t = "arr" ->
         (IF x.id.own = "input" THEN {x.id.at} ELSE {})
           \cup UNION { InputNodes(x.e[i]) : i \in 1..Len(x.e) }
    [] OTHER -> {}

\* C1: the returned value shares no object or array with the document
C1_NonAliasing == pc = "applied" => InputNodes(res) = {}

(***************************************************************************)
(* C2: a validated spec fails with the mixed-mode error exactly when its   *)
(* working key set holds a truthy-valued and a falsy-valued key.           *)
(***************************************************************************)
C2_MixedModeIff ==
  (AfterCompile /\ PassesValidation(fields)) =>
    ((pc = "failed" /\ err.msg = MsgMixed) <=> MixesModes(fields))

\* {_id: 1, a: 0} and the like: a truthy _id stays in the working set
C2_Witness ==
  /\ pc = "failed"
  /\ err.msg = MsgMixed
  /\ PassesValidation(fields)
  /\ IdKey \in KeySet(fields)
  /\ Truthy(Get(fields, IdKey))

(***************************************************************************)
(* C3: a spec that passes validation and mode resolution fails with the    *)
(* ambiguous-path error exactly when one working path is a proper segment  *)
(* prefix of another; every declaration order of the same pairs ends the   *)
(* same way; and a failed compilation leaves no tree and no transform.     *)
(***************************************************************************)
C3_AmbiguousPathIff ==
  (AfterCompile /\ PassesValidation(fields) /\ err.msg # MsgMixed) =>
    /\ (pc = "failed" /\ err.msg = MsgAmbiguous) <=> HasOverlap(fields)
    /\ \A g \in Reorderings(fields) :
         compileProjection(g) =
           [err |-> err, details |-> details, idProjection |-> idProjection]
    /\ pc = "failed" => details = NoDetails /\ idProjection = JsUndefined

\* "a.b" declared before "a"
C3_Witness ==
  /\ pc = "failed"
  /\ err.msg = MsgAmbiguous
  /\ Len(fields.pairs) = 2
  /\ ProperPrefix(Split(fields.pairs[2][1]), Split(fields.pairs[1][1]))

(***************************************************************************)
(* C4: on a document that is not an array the result has a top-level _id   *)
(* exactly when the document has one and the spec does not map _id to a    *)
(* falsy value, and then it is the whole of d._id.                         *)
(***************************************************************************)
C4_IdentifierRule ==
  (pc = "applied" /\ ~IsArray(doc)) =>
    /\ Has(res, IdKey) <=> (Has(doc, IdKey) /\ ~MapsIdFalsy(fields))
    /\ Has(res, IdKey) => DeepEquals(res.f[IdKey], doc.f[IdKey])

\* only the sub-path _id.x is asked for, and _id comes back whole
C4_Witness ==
  /\ pc = "applied"
  /\ Inclusive
  /\ KeySet(fields) = {<<"_", "i", "d", ".", "x">>}
  /\ Has(doc, IdKey)
  /\ doc.f[IdKey].t = "obj"
  /\ Has(res, IdKey)
  /\ Kb \in DOMAIN res.f[IdKey].f

(***************************************************************************)
(* C5: the compiled function of an inclusive spec is idempotent.           *)
(***************************************************************************)
C5_InclusiveIdempotence ==
  (pc = "reapplied" /\ Inclusive) => DeepEquals(res2, res)

\* an array field holding a scalar, under a sub-path rule
C5_Witness ==
  /\ pc = "reapplied"
  /\ Inclusive
  /\ Has(doc, Ka)
  /\ doc.f[Ka].t = "arr"
  /\ \E i \in 1..Len(doc.f[Ka].e) : doc.f[Ka].e[i].t = "val"
  /\ Has(res, Ka)
  /\ res.f[Ka] # Erase(doc.f[Ka])
  /\ DeepEquals(res2, res)

(***************************************************************************)
(* C6: an exclusive transform puts no key path in the output that the      *)
(* document lacks, keeps every key path of the document that no spec path  *)
(* names or lies above, and keeps the scalars at the kept paths.           *)
(***************************************************************************)
C6_ExclusiveFrame ==
  (pc = "applied" /\ Exclusive) =>
    /\ DocPaths(res) \subseteq DocPaths(doc)
    /\ \A p \in DocPaths(doc) :
         ~Named(fields, p) =>
           /\ p \in DocPaths(res)
           /\ NodeAt(doc, p).t = "val" => NodeAt(res, p) = NodeAt(doc, p)

\* a.b is removed from the objects of the array a, and their x stays
C6_Witness ==
  /\ pc = "applied"
  /\ Exclusive
  /\ <<"a", ".", "b">> \in KeySet(fields)
  /\ Has(doc, Ka)
  /\ doc.f[Ka].t = "arr"
  /\ <<Ka, IndexKey(1), Kb>> \in DocPaths(doc)
  /\ <<Ka, IndexKey(1), Kb>> \notin DocPaths(res)
  /\ <<Ka, IndexKey(1), Kx>> \in DocPaths(res)

(***************************************************************************)
(* C7: wherever the recursive pass meets an array (the document itself,    *)
(* or a field under a subtree rule, at any depth) its result there is an   *)
(* array of the same length whose i-th element is the transform of the     *)
(* i-th element under the same rule subtree.  The returned value holds     *)
(* the result of the pass at every key but the top-level _id, which the    *)
(* identifier rule sets afterwards.                                        *)
(***************************************************************************)
RECURSIVE ElementWise(_, _, _, _)
ElementWise(in, out, rule, including) ==
  CASE in.t = "arr" ->
         /\ out.t = "arr"
         /\ Len(out.e) = Len(in.e)
         /\ \A i \in 1..Len(in.e) :
              /\ DeepEquals(out.e[i], transform(in.e[i], rule, including))
              /\ ElementWise(in.e[i], out.e[i], rule, including)
    [] in.t = "obj" ->
         \A k \in DOMAIN rule.kids \cap DOMAIN in.f :
           (IsObjectRule(rule.kids[k]) /\ IsObject(in.f[k])) =>
             /\ Has(out, k)
             /\ ElementWise(in.f[k], out.f[k], rule.kids[k], including)
    [] OTHER -> TRUE

WithoutKey(tree, key) ==
  Tree([k \in DOMAIN tree.kids \ {key} |-> tree.kids[k]])

ValidationMsg(pair) ==
  IF HasDollarSegment(pair[1]) THEN MsgDollar
  ELSE IF HasOperatorKey(pair[2]) THEN MsgOperator
  ELSE MsgValue

FirstOffending(pairs) ==
  pairs[CHOOSE i \in 1..Len(pairs) :
          Offending(pairs[i]) /\ \A j \in 1..(i - 1) : ~Offending(pairs[j])]

\* C8: the first offending pair decides the error, before any resolution
C8_ValidationFirst ==
  (AfterCompile /\ fields.shape = "object" /\ ~PassesValidation(fields)) =>
    /\ pc = "failed"
    /\ err.msg = ValidationMsg(FirstOffending(fields.pairs))
    /\ err.msg \notin {MsgMixed, MsgAmbiguous}
    /\ details = NoDetails
    /\ idProjection = JsUndefined

\* the second pair offends, and the pairs alone would mix modes or overlap
C8_Witness ==
  /\ pc = "failed"
  /\ Len(fields.pairs) = 2
  /\ ~Offending(fields.pairs[1])
  /\ Offending(fields.pairs[2])
  /\ projectionDetails(fields).err.msg \in {MsgMixed, MsgAmbiguous}
  /\ err.msg \in {MsgDollar, MsgOperator, MsgValue}

(***************************************************************************)
(* C9, as claimed: under a subtree rule at key k, a scalar d[k] is in the  *)
(* result unchanged, for inclusive and exclusive specs alike.              *)
(***************************************************************************)
C9_SubPathKeepsScalar ==
  (pc = "applied" /\ doc.t = "obj") =>
    \A k \in DOMAIN details.tree.kids \cap DOMAIN doc.f :
      (IsObjectRule(details.tree.kids[k]) /\ doc.f[k].t = "val") =>
        /\ Has(res, k)
        /\ res.f[k] = doc.f[k]

(***************************************************************************)
(* C9, amended: under a subtree rule at key k, at any depth, a scalar at   *)
(* k is kept unchanged by an exclusive spec and left out by an inclusive   *)
(* one; the top-level _id follows the identifier rule instead.             *)
(***************************************************************************)
RECURSIVE SubPathRule(_, _, _, _)
SubPathRule(in, out, rule, skip) ==
  CASE in.t = "arr" ->
         \A i \in 1..Len(in.e) : SubPathRule(in.e[i], out.e[i], rule, {})
    [] in.t = "obj" ->
         \A k \in (DOMAIN rule.kids \cap DOMAIN in.f) \ skip :
           IsObjectRule(rule.kids[k]) =>
             IF in.f[k].t = "val"
             THEN IF Inclusive THEN ~Has(out, k)
                  ELSE Has(out, k) /\ out.f[k] = in.f[k]
             ELSE Has(out, k) /\ SubPathRule(in.f[k], out.f[k], rule.kids[k], {})
    [] OTHER -> TRUE

\* C9, amended: a scalar under a sub-path rule is kept (exclusive) or left out (inclusive)
C9_SubPathByMode ==
  pc = "applied" =>
    /\ SubPathRule(doc, res, details.tree, {IdKey})
    /\ (Has(doc, IdKey) /\ doc.f[IdKey].t = "val") =>
         IF MapsIdFalsy(fields) THEN ~Has(res, IdKey)
         ELSE Has(res, IdKey) /\ res.f[IdKey] = doc.f[IdKey]

\* {"a.b": 0} on a document whose a is a scalar
C9_Witness ==
  /\ pc = "applied"
  /\ Exclusive
  /\ Ka \in DOMAIN details.tree.kids
  /\ IsObjectRule(details.tree.kids[Ka])
  /\ Has(doc, Ka)
  /\ doc.f[Ka].t = "val"
  /\ Has(res, Ka)
  /\ res.f[Ka] = doc.f[Ka]

(***************************************************************************)
(* C10: the tree projectionDetails returns has only nested trees and       *)
(* boolean leaves, every leaf is the resolved `including`, its             *)
(* root-to-leaf paths are the working key set, and `including` is null     *)
(* exactly when the spec has no keys.                                      *)
(***************************************************************************)
RECURSIVE LeavesCarry(_, _)
LeavesCarry(node, including) ==
  /\ node.ty = "tree"
  /\ \A k \in DOMAIN node.kids :
       IF node.kids[k].ty = "tree"
       THEN LeavesCarry(node.kids[k], including)
       ELSE node.kids[k].ty = "boolean" /\ node.kids[k] = including

RECURSIVE LeafPaths(_)
LeafPaths(node) ==
  UNION { IF node.kids[k].ty = "tree"
          THEN { <<k>> \o p : p \in LeafPaths(node.kids[k]) }
          ELSE { <<k>> } : k \in DOMAIN node.kids }

====
